---------------------------- MODULE Spec2Model ----------------------------
(***************************************************************************)
(* Model of the parallel-hatching engine createParallelHatching            *)
(* (src/src/lines/parallelHatchingAlgorithm.ts).                           *)
(*                                                                         *)
(* Numbers.  The engine computes on IEEE doubles.  The model computes on   *)
(* exact rationals <<n, d>> (d > 0, lowest terms), so two model numbers    *)
(* are equal exactly when the tuples are equal.  Rounding is not           *)
(* modelled.                                                               *)
(*                                                                         *)
(* Angles.  Math.cos / Math.sin are modelled by CosDeg / SinDeg, which are *)
(* exact at every multiple of 30 degrees where the cosine is rational      *)
(* (0, 60, 90, 120, 180, ...: 1, 1/2, 0, -1/2, -1, ...) and linear in      *)
(* between.  Bearings are drawn from the multiples of 90 degrees, where    *)
(* cos^2 + sin^2 = 1 holds exactly.                                        *)
(*                                                                         *)
(* Lengths.  The model's unit of length is chosen so that one degree of    *)
(* latitude, earthRadius * PI / 180 metres in the source, is               *)
(* UnitsPerDegree units long.                                              *)
(*                                                                         *)
(* Specifications.                                                         *)
(*   Spec           one call of the engine, past the reading of its        *)
(*                  argument, step by step                                 *)
(*   SpecCall       one call from its first line: the argument object is   *)
(*                  read, by the planar engine or by the call entry of the *)
(*                  ellipsoid variant (src/unnamed/part_001, whose sweep   *)
(*                  is not modelled)                                       *)
(*   SpecRepeat     calls of the engine one after the other                *)
(*   SpecTransform  one point through the forward and the back transform   *)
(*   SpecUi         the control widget (src/src/ui-controls.ts) and the    *)
(*                  double-click handler (src/unnamed/part_000)            *)
(***************************************************************************)
EXTENDS Integers, Sequences, FiniteSets, TLC

VARIABLES
    polygonCoordinates, \* options.polygonCoordinates, as passed by the caller
    lineSpacing,        \* options.lineSpacing
    lineAngle,          \* options.lineAngle (degrees)
    lineExtension,      \* options.lineExtension
    pc,                 \* where the call is: "call" | "entry" | "sweep" |
                        \* "returned" | "thrown" | "ellipsoid"; between
                        \* calls "idle"; "geographic" | "working" |
                        \* "restored" in SpecTransform; "page" in SpecUi
                        \* before the first request
    polygonPoints,      \* the ring the engine works on
    avgLatitude,        \* its mean latitude (degrees)
    cosAngle,           \* Math.cos(angleRadians)
    sinAngle,           \* Math.sin(angleRadians)
    projectedPoints,    \* the ring in the rotated planar frame
    leftBoundary,       \* sweep range
    rightBoundary,
    linePosition,       \* the for-loop variable
    hatchingLines,      \* the result: a sequence of <<LonLat, LonLat>>
    scanLog,            \* history: per scan line visited, [x0, hits]
    planarLog,          \* history: per segment emitted, its planar data
    options,            \* the argument object of a call, before it is read
    engine,             \* which implementation is called: "planar" (the
                        \* module parallelHatchingAlgorithm.ts) or "ellipsoid"
                        \* (the variant of src/unnamed/part_001)
    step,               \* the locals of the ellipsoid variant's call entry
    bearing,
    offset,
    returned,           \* history: the calls that have returned, in order,
                        \* each with its arguments and the lines it returned
    geoPoint,           \* a point <<longitude, latitude>> put through the
    workingPoint,       \* engine's forward transform, [x, y], and then
    restoredPoint,      \* through its back-transform, <<longitude, latitude>>
    currentPolygonCoords, \* ui-controls.ts: null, or the selected polygon
    values,             \* ui-controls.ts: the widget's step, bearing, offset
    sliders,            \* the value strings of the three range inputs
    lineLayer,          \* the Lines LINE_LAYER holds, in the order added
    eventLog            \* history: the UI events dispatched so far

\* one point taken through the two transforms
transformVars == <<geoPoint, workingPoint, restoredPoint>>

\* what lies outside a call of the planar engine; its steps leave it alone
\* the control widget and the line layer
uiVars == <<currentPolygonCoords, values, sliders, lineLayer, eventLog>>

callerVars == <<options, engine, step, bearing, offset, returned,
                transformVars, uiVars>>

vars == <<polygonCoordinates, lineSpacing, lineAngle, lineExtension, pc,
          polygonPoints, avgLatitude, cosAngle, sinAngle, projectedPoints,
          leftBoundary, rightBoundary, linePosition, hatchingLines, scanLog,
          planarLog, callerVars>>

----------------------------------------------------------------------------
(* Bounds of the model *)

\* earthRadius * PI / 180, the length of one degree of latitude, in model units
UnitsPerDegree == 4

\* cap on the number of scan lines a call with lineSpacing <= 0 may visit (the
\* loop of the source does not end then; the model follows it this far)
MaxLines == 3

\* number of calls of the engine made one after the other
MaxCalls == 3

\* number of UI events (double clicks, slider inputs) dispatched
MaxEvents == 3

----------------------------------------------------------------------------
(* Exact rational arithmetic standing for JavaScript number arithmetic *)

Abs(n) == IF n < 0 THEN -n ELSE n

RECURSIVE GCD(_, _)
GCD(a, b) == IF b = 0 THEN a ELSE GCD(b, a % b)

\* the rational n/d in lowest terms with positive denominator (d # 0)
Frac(n, d) ==
    LET g == GCD(Abs(n), Abs(d))
        s == IF d < 0 THEN -1 ELSE 1
    IN  <<(s * n) \div g, (s * d) \div g>>

Num(n) == <<n, 1>>

Plus(a, b) ==
    LET g == GCD(a[2], b[2])
    IN  Frac(a[1] * (b[2] \div g) + b[1] * (a[2] \div g), (a[2] \div g) * b[2])

Neg(a) == <<-a[1], a[2]>>

Minus(a, b) == Plus(a, Neg(b))

Times(a, b) ==
    LET g1 == GCD(Abs(a[1]), b[2])
        g2 == GCD(Abs(b[1]), a[2])
    IN  Frac((a[1] \div g1) * (b[1] \div g2), (a[2] \div g2) * (b[2] \div g1))

\* a / b for b # 0 (the engine divides by zero nowhere on the inputs modelled)
Over(a, b) == Times(a, Frac(b[2], b[1]))

Less(a, b) ==
    LET g == GCD(a[2], b[2])
    IN  a[1] * (b[2] \div g) < b[1] * (a[2] \div g)

Leq(a, b) == ~Less(b, a)

\* Math.min(...xs) and Math.max(...xs) of a non-empty sequence
MathMin(xs) ==
    CHOOSE m \in {xs[i] : i \in 1..Len(xs)} : \A i \in 1..Len(xs) : Leq(m, xs[i])

MathMax(xs) ==
    CHOOSE m \in {xs[i] : i \in 1..Len(xs)} : \A i \in 1..Len(xs) : Leq(xs[i], m)

\* Math.cos of an angle given in degrees as a rational
CosDeg(a) ==
    LET t == Frac(a[1] % (360 * a[2]), a[2])         \* a mod 360, in [0, 360)
        u == IF Leq(t, Num(180)) THEN t ELSE Minus(Num(360), t)  \* [0, 180]
    IN  IF Leq(u, Num(60))
        THEN Minus(Num(1), Over(u, Num(120)))                    \* 1 .. 1/2
        ELSE IF Leq(u, Num(120))
        THEN Over(Minus(Num(90), u), Num(60))                    \* 1/2 .. -1/2
        ELSE Minus(Over(Minus(Num(180), u), Num(120)), Num(1))   \* -1/2 .. -1

\* Math.sin
SinDeg(a) == CosDeg(Minus(a, Num(90)))


----------------------------------------------------------------------------
(* createParallelHatching: the pure parts *)

\* the ring the engine works on: the first polygon when the argument is an
\* array of polygons whose first polygon has a first point, the argument
\* itself otherwise
PolygonPoints(arg) ==
    IF arg.nested /\ Len(arg.coords) > 0 /\ Len(arg.coords[1]) > 0
    THEN arg.coords[1]
    ELSE arg.coords

\* mutant: the length test off by one
TooShort_Mutant(points) == Len(points) < 3

\* the early return: if (!polygonPoints || polygonPoints.length < 4) return []
TooShort(points) == Len(points) < 4

RECURSIVE SumLatitudes(_, _)
SumLatitudes(points, n) ==
    IF n = 0 THEN 0 ELSE SumLatitudes(points, n - 1) + points[n][2]

\* the mean latitude of the ring, in degrees
AvgLatitude(points) == Frac(SumLatitudes(points, Len(points)), Len(points))

CosAngle(angle) == CosDeg(Num(angle))

SinAngle(angle) == SinDeg(Num(angle))

\* equirectangular projection of one <<longitude, latitude>> (degrees, as
\* rationals), then rotation; cosLat is Math.cos(avgLatitudeRadians)
ProjectPoint(p, cosLat, cosA, sinA) ==
    LET projectedX == Times(Times(Num(UnitsPerDegree), p[1]), cosLat)
        projectedY == Times(Num(UnitsPerDegree), p[2])
    IN  [x |-> Plus(Times(cosA, projectedX), Times(sinA, projectedY)),
         y |-> Plus(Times(Neg(sinA), projectedX), Times(cosA, projectedY))]

ProjectedPoints(points, angle) ==
    LET cosLat == CosDeg(AvgLatitude(points))
        cosA == CosAngle(angle)
        sinA == SinAngle(angle)
    IN  [i \in 1..Len(points) |->
            ProjectPoint(<<Num(points[i][1]), Num(points[i][2])>>,
                         cosLat, cosA, sinA)]

AllXCoordinates(projected) == [i \in 1..Len(projected) |-> projected[i].x]

LeftBoundary(projected, extension) ==
    Minus(MathMin(AllXCoordinates(projected)), extension)

RightBoundary(projected, extension) ==
    Plus(MathMax(AllXCoordinates(projected)), extension)

\* mutant: the loop stops before the right boundary
SweepContinues_Mutant(position, right) == Less(position, right)

\* the condition of the outer for loop
SweepContinues(position, right) == Leq(position, right)

\* the increment of the outer for loop
NextLinePosition(position, spacing) == Plus(position, spacing)

\* mutant: an edge that only touches the scan line with an end point is skipped
EdgeSkipped_Mutant(position, startPoint, endPoint) ==
    \/ Leq(position, startPoint.x) /\ Leq(position, endPoint.x)
    \/ Leq(startPoint.x, position) /\ Leq(endPoint.x, position)
    \/ startPoint.x = endPoint.x

\* "Skip if the line doesn't intersect this edge"
EdgeSkipped(position, startPoint, endPoint) ==
    \/ Less(position, startPoint.x) /\ Less(position, endPoint.x)
    \/ Less(startPoint.x, position) /\ Less(endPoint.x, position)
    \/ startPoint.x = endPoint.x

\* mutant: the interpolation adds the end point's y instead of the difference
IntersectionY_Mutant(position, startPoint, endPoint) ==
    LET edgeProgress == Over(Minus(position, startPoint.x),
                             Minus(endPoint.x, startPoint.x))
    IN  Plus(startPoint.y, Times(edgeProgress, endPoint.y))

\* linear interpolation along a non-vertical edge
IntersectionY(position, startPoint, endPoint) ==
    LET edgeProgress == Over(Minus(position, startPoint.x),
                             Minus(endPoint.x, startPoint.x))
    IN  Plus(startPoint.y, Times(edgeProgress, Minus(endPoint.y, startPoint.y)))

\* the last edge index the inner loop visits (edges are edgeIndex, edgeIndex+1;
\* 1-based here): edgeIndex < projectedPoints.length - 1
LastEdgeIndex(projected) == Len(projected) - 1

\* the hits of one scan line, in edge order, over edges 1..n
RECURSIVE EdgeLoop(_, _, _)
EdgeLoop(projected, position, n) ==
    IF n = 0 THEN <<>>
    ELSE LET before == EdgeLoop(projected, position, n - 1)
         IN  IF EdgeSkipped(position, projected[n], projected[n + 1])
             THEN before
             ELSE Append(before,
                         IntersectionY(position, projected[n], projected[n + 1]))

IntersectionPoints(projected, position) ==
    EdgeLoop(projected, position, LastEdgeIndex(projected))

\* insertion of one number into an ascending sequence, after its equals
RECURSIVE InsertAsc(_, _)
InsertAsc(sorted, v) ==
    IF sorted = <<>> THEN <<v>>
    ELSE IF Less(v, Head(sorted)) THEN <<v>> \o sorted
    ELSE <<Head(sorted)>> \o InsertAsc(Tail(sorted), v)

\* mutant: the hits are left in edge order
SortAsc_Mutant(xs) == xs

\* intersectionPoints.sort((a, b) => a - b)
RECURSIVE SortAsc(_)
SortAsc(xs) ==
    IF xs = <<>> THEN <<>>
    ELSE InsertAsc(SortAsc(SubSeq(xs, 1, Len(xs) - 1)), xs[Len(xs)])

SegmentStart(hit, extension) == Minus(hit, extension)

\* mutant: the end of the segment is moved the wrong way
SegmentEnd_Mutant(hit, extension) == Minus(hit, extension)

SegmentEnd(hit, extension) == Plus(hit, extension)

\* mutant: the pairing loop stops one pair early
PairLoopContinues_Mutant(pairIndex, length) == pairIndex + 2 < length

\* the condition of the pairing loop: pairIndex + 1 < intersectionPoints.length
PairLoopContinues(pairIndex, length) == pairIndex + 1 < length

\* the pairing loop from pairIndex (0-based) on: the planar segments of a line
RECURSIVE PairLoop(_, _, _)
PairLoop(hits, extension, pairIndex) ==
    IF PairLoopContinues(pairIndex, Len(hits))
    THEN <<[start |-> SegmentStart(hits[pairIndex + 1], extension),
            end   |-> SegmentEnd(hits[pairIndex + 2], extension)]>>
         \o PairLoop(hits, extension, pairIndex + 2)
    ELSE <<>>

\* mutant: the back-transform rotates with the matrix of the forward transform
ToLonLat_Mutant(point, cosLat, cosA, sinA) ==
    LET rotatedX == Plus(Times(cosA, point[1]), Times(sinA, point[2]))
        rotatedY == Plus(Times(Neg(sinA), point[1]), Times(cosA, point[2]))
    IN  <<Over(rotatedX, Times(Num(UnitsPerDegree), cosLat)),
          Over(rotatedY, Num(UnitsPerDegree))>>

\* one planar point [x, y] back to geographic coordinates: <<lon, lat>>
ToLonLat(point, cosLat, cosA, sinA) ==
    LET rotatedX == Minus(Times(cosA, point[1]), Times(sinA, point[2]))
        rotatedY == Plus(Times(sinA, point[1]), Times(cosA, point[2]))
    IN  <<Over(rotatedX, Times(Num(UnitsPerDegree), cosLat)),
          Over(rotatedY, Num(UnitsPerDegree))>>

\* the segment pushed for one pair: two LonLat
LineSegment(position, seg, cosLat, cosA, sinA) ==
    <<ToLonLat(<<position, seg.start>>, cosLat, cosA, sinA),
      ToLonLat(<<position, seg.end>>, cosLat, cosA, sinA)>>

----------------------------------------------------------------------------
(* The inputs of a call *)

\* longitudes and latitudes of ring points, in degrees
Lons == {0, 1}

Lats == {0, 1, 2}

Grid == {<<lon, lat>> : lon \in Lons, lat \in Lats}

\* rings without a repeated point, of every length up to four
OpenRingLengths == {0, 1, 2, 3, 4}

OpenRings ==
    UNION {{r \in [1..n -> Grid] : \A i, j \in 1..n : i < j => r[i] # r[j]} :
           n \in OpenRingLengths}

\* the same rings with the first point repeated at the end
ClosedRings == {Append(r, r[1]) : r \in OpenRings \ {<<>>}}

Rings == OpenRings \cup ClosedRings

\* the unit-degree square of the specification's square scenario
UnitSquare == <<<<0, 0>>, <<0, 1>>, <<1, 1>>, <<1, 0>>, <<0, 0>>>>

\* half the projected width of the unit square at bearing 0: the spacing that
\* puts a scan line through the square's centre when the offset is 0
SquareHalfWidth ==
    LET xs == AllXCoordinates(ProjectedPoints(UnitSquare, 0))
    IN  Over(Minus(MathMax(xs), MathMin(xs)), Num(2))

\* SquareHalfWidth is drawn for the unit square only
Spacings == {Num(-2), Num(0), Num(2), Num(4), SquareHalfWidth}

Angles == {0, 90}

Extensions == {Num(0), Num(1)}

\* rings also passed wrapped in an array of polygons
WrappedRings ==
    {<<>>, <<<<0, 0>>, <<1, 0>>, <<1, 1>>>>, UnitSquare,
     <<<<0, 0>>, <<1, 1>>, <<0, 2>>, <<0, 0>>>>}

\* the argument is a ring, or an array of polygons holding one ring
Arguments ==
    {[nested |-> FALSE, coords |-> r] : r \in Rings}
    \cup {[nested |-> TRUE, coords |-> <<r>>] : r \in WrappedRings}

----------------------------------------------------------------------------
(* The argument object of a call *)

\* A property of the argument object is <<>> when the object has no such
\* property (reading it gives undefined) and <<v>> when it holds v.
Undefined == <<>>

Given(v) == <<v>>

IsUndefined(property) == Len(property) = 0

ValueOf(property) == property[1]

\* the defaults of both implementations
DefaultLineSpacing == 100

DefaultLineAngle == 0

DefaultLineExtension == 50

\* lines 18-23, `lineSpacing = 100` in a destructuring pattern: the default is
\* taken exactly when the property is undefined
DestructuringDefault(property, default) ==
    IF IsUndefined(property) THEN default ELSE ValueOf(property)

\* part_001 lines 20-22, `options.step || 100`: the default is taken when the
\* property is falsy, that is undefined or the number 0
OrDefault(property, default) ==
    IF IsUndefined(property) \/ ValueOf(property) = Num(0)
    THEN default
    ELSE ValueOf(property)

\* line 29 reads polygonCoordinates[0]: a TypeError when the argument object
\* has no polygonCoordinates
ThrowsTypeError(opts) == IsUndefined(opts.polygonCoordinates)

\* the argument object of a call that names all four parameters of the planar
\* engine
NamedOptions(coordinates, spacing, angle, extension) ==
    [polygonCoordinates |-> Given(coordinates),
     lineSpacing        |-> spacing,
     lineAngle          |-> angle,
     lineExtension      |-> extension,
     step               |-> Undefined,
     bearing            |-> Undefined,
     offset             |-> Undefined]

\* the argument object written for the ellipsoid variant
StepOptions(coordinates, stepLength, bearingDegrees, offsetLength) ==
    [polygonCoordinates |-> Given(coordinates),
     lineSpacing        |-> Undefined,
     lineAngle          |-> Undefined,
     lineExtension      |-> Undefined,
     step               |-> stepLength,
     bearing            |-> bearingDegrees,
     offset             |-> offsetLength]

\* an array passed where the argument object is expected: it has none of the
\* named properties
ArrayAsOptions ==
    [polygonCoordinates |-> Undefined,
     lineSpacing        |-> Undefined,
     lineAngle          |-> Undefined,
     lineExtension      |-> Undefined,
     step               |-> Undefined,
     bearing            |-> Undefined,
     offset             |-> Undefined]

\* no control widget has been created and the line layer is empty
UiIdle ==
    /\ currentPolygonCoords = Undefined
    /\ values = [step |-> 0, bearing |-> 0, offset |-> 0]
    /\ sliders = [step |-> <<>>, bearing |-> <<>>, offset |-> <<>>]
    /\ lineLayer = <<>>
    /\ eventLog = <<>>

\* no point is being taken through the transforms
TransformIdle ==
    /\ geoPoint = <<Num(0), Num(0)>>
    /\ workingPoint = [x |-> Num(0), y |-> Num(0)]
    /\ restoredPoint = <<Num(0), Num(0)>>

\* the caller's side of a call of the planar engine that is already past its
\* entry: every parameter was supplied
CallerIdle ==
    /\ options = NamedOptions(polygonCoordinates, Given(lineSpacing),
                              Given(lineAngle), Given(lineExtension))
    /\ engine = "planar"
    /\ step = Num(0)
    /\ bearing = Num(0)
    /\ offset = Num(0)
    /\ returned = <<>>
    /\ TransformIdle
    /\ UiIdle

----------------------------------------------------------------------------
(* The call as a state machine *)

Init ==
    /\ polygonCoordinates \in Arguments
    /\ lineSpacing \in Spacings
    /\ lineSpacing = SquareHalfWidth =>
           PolygonPoints(polygonCoordinates) = UnitSquare
    /\ lineAngle \in Angles
    /\ lineExtension \in Extensions
    /\ pc = "entry"
    /\ polygonPoints = <<>>
    /\ avgLatitude = Num(0)
    /\ cosAngle = Num(0)
    /\ sinAngle = Num(0)
    /\ projectedPoints = <<>>
    /\ leftBoundary = Num(0)
    /\ rightBoundary = Num(0)
    /\ linePosition = Num(0)
    /\ hatchingLines = <<>>
    /\ scanLog = <<>>
    /\ planarLog = <<>>
    /\ CallerIdle

\* lines 18-33: the ring is too short, return []
ReturnEmpty ==
    /\ pc = "entry"
    /\ TooShort(PolygonPoints(polygonCoordinates))
    /\ polygonPoints' = PolygonPoints(polygonCoordinates)
    /\ pc' = "returned"
    /\ UNCHANGED <<polygonCoordinates, lineSpacing, lineAngle, lineExtension,
                   avgLatitude, cosAngle, sinAngle, projectedPoints,
                   leftBoundary, rightBoundary, linePosition, hatchingLines,
                   scanLog, planarLog>>
    /\ UNCHANGED callerVars

\* lines 18-72: project the ring, find the sweep range, enter the loop
BeginSweep ==
    /\ pc = "entry"
    /\ ~TooShort(PolygonPoints(polygonCoordinates))
    /\ polygonPoints' = PolygonPoints(polygonCoordinates)
    /\ avgLatitude' = AvgLatitude(polygonPoints')
    /\ cosAngle' = CosAngle(lineAngle)
    /\ sinAngle' = SinAngle(lineAngle)
    /\ projectedPoints' = ProjectedPoints(polygonPoints', lineAngle)
    /\ leftBoundary' = LeftBoundary(projectedPoints', lineExtension)
    /\ rightBoundary' = RightBoundary(projectedPoints', lineExtension)
    /\ linePosition' = leftBoundary'
    /\ pc' = "sweep"
    /\ UNCHANGED <<polygonCoordinates, lineSpacing, lineAngle, lineExtension,
                   hatchingLines, scanLog, planarLog>>
    /\ UNCHANGED callerVars

\* lines 72-117: one iteration of the outer loop
ScanLine ==
    /\ pc = "sweep"
    /\ SweepContinues(linePosition, rightBoundary)
    /\ Leq(lineSpacing, Num(0)) => Len(scanLog) < MaxLines
    /\ LET intersectionPoints == IntersectionPoints(projectedPoints, linePosition)
           sorted == SortAsc(intersectionPoints)
           segments == PairLoop(sorted, lineExtension, 0)
           cosLat == CosDeg(avgLatitude)
       IN  /\ hatchingLines' = hatchingLines \o
                  [k \in 1..Len(segments) |->
                      LineSegment(linePosition, segments[k], cosLat, cosAngle,
                                  sinAngle)]
           /\ scanLog' = Append(scanLog, [x0 |-> linePosition,
                                          found |-> intersectionPoints,
                                          hits |-> sorted])
           /\ planarLog' = planarLog \o
                  [k \in 1..Len(segments) |->
                      [line |-> Len(scanLog) + 1, x |-> linePosition,
                       start |-> segments[k].start, end |-> segments[k].end]]
    /\ linePosition' = NextLinePosition(linePosition, lineSpacing)
    /\ UNCHANGED <<polygonCoordinates, lineSpacing, lineAngle, lineExtension, pc,
                   polygonPoints, avgLatitude, cosAngle, sinAngle,
                   projectedPoints, leftBoundary, rightBoundary>>
    /\ UNCHANGED callerVars

\* lines 72, 119: the loop condition fails, return hatchingLines
ReturnLines ==
    /\ pc = "sweep"
    /\ ~SweepContinues(linePosition, rightBoundary)
    /\ pc' = "returned"
    /\ UNCHANGED <<polygonCoordinates, lineSpacing, lineAngle, lineExtension,
                   polygonPoints, avgLatitude, cosAngle, sinAngle,
                   projectedPoints, leftBoundary, rightBoundary, linePosition,
                   hatchingLines, scanLog, planarLog>>
    /\ UNCHANGED callerVars

Next == ReturnEmpty \/ BeginSweep \/ ScanLine \/ ReturnLines

Spec == Init /\ [][Next]_vars

----------------------------------------------------------------------------
(* The call from its very first line: reading the argument object *)

\* rings passed in these calls
CallRings == {UnitSquare, <<<<0, 0>>, <<1, 0>>, <<1, 1>>>>}

\* parameter values a caller supplies or omits; all are valid values
SuppliedSpacings == {Undefined, Given(Num(2)), Given(Num(4))}

SuppliedAngles == {Undefined, Given(0), Given(90)}

SuppliedExtensions == {Undefined, Given(Num(0)), Given(Num(1))}

SuppliedBearings == {Undefined, Given(Num(0)), Given(Num(90))}

CallOptions ==
    {NamedOptions([nested |-> FALSE, coords |-> r], s, a, e) :
        r \in CallRings, s \in SuppliedSpacings, a \in SuppliedAngles,
        e \in SuppliedExtensions}
    \cup {StepOptions([nested |-> FALSE, coords |-> r], s, b, e) :
        r \in CallRings, s \in SuppliedSpacings, b \in SuppliedBearings,
        e \in SuppliedExtensions}
    \cup {ArrayAsOptions}

InitCall ==
    /\ options \in CallOptions
    /\ engine \in {"planar", "ellipsoid"}
    /\ pc = "call"
    /\ polygonCoordinates = [nested |-> FALSE, coords |-> <<>>]
    /\ lineSpacing = Num(0)
    /\ lineAngle = 0
    /\ lineExtension = Num(0)
    /\ step = Num(0)
    /\ bearing = Num(0)
    /\ offset = Num(0)
    /\ returned = <<>>
    /\ TransformIdle
    /\ UiIdle
    /\ polygonPoints = <<>>
    /\ avgLatitude = Num(0)
    /\ cosAngle = Num(0)
    /\ sinAngle = Num(0)
    /\ projectedPoints = <<>>
    /\ leftBoundary = Num(0)
    /\ rightBoundary = Num(0)
    /\ linePosition = Num(0)
    /\ hatchingLines = <<>>
    /\ scanLog = <<>>
    /\ planarLog = <<>>

\* parallelHatchingAlgorithm.ts lines 18-23: the destructuring with defaults
DestructureOptions ==
    /\ pc = "call"
    /\ engine = "planar"
    /\ ~ThrowsTypeError(options)
    /\ polygonCoordinates' = ValueOf(options.polygonCoordinates)
    /\ lineSpacing' =
           DestructuringDefault(options.lineSpacing, Num(DefaultLineSpacing))
    /\ lineAngle' = DestructuringDefault(options.lineAngle, DefaultLineAngle)
    /\ lineExtension' =
           DestructuringDefault(options.lineExtension,
                                Num(DefaultLineExtension))
    /\ pc' = "entry"
    /\ UNCHANGED <<polygonPoints, avgLatitude, cosAngle, sinAngle,
                   projectedPoints, leftBoundary, rightBoundary, linePosition,
                   hatchingLines, scanLog, planarLog, callerVars>>

\* parallelHatchingAlgorithm.ts lines 18-29: the argument object has no
\* polygonCoordinates, the defaults are taken and polygonCoordinates[0] throws
ThrowTypeError ==
    /\ pc = "call"
    /\ engine = "planar"
    /\ ThrowsTypeError(options)
    /\ lineSpacing' =
           DestructuringDefault(options.lineSpacing, Num(DefaultLineSpacing))
    /\ lineAngle' = DestructuringDefault(options.lineAngle, DefaultLineAngle)
    /\ lineExtension' =
           DestructuringDefault(options.lineExtension,
                                Num(DefaultLineExtension))
    /\ pc' = "thrown"
    /\ UNCHANGED <<polygonCoordinates, polygonPoints, avgLatitude, cosAngle,
                   sinAngle, projectedPoints, leftBoundary, rightBoundary,
                   linePosition, hatchingLines, scanLog, planarLog,
                   callerVars>>

\* part_001 lines 19-22: the call entry of the ellipsoid variant.  What
\* follows it there (the geodesic sweep on the map engine's ellipsoid) is not
\* part of this model.
ExtractOptions ==
    /\ pc = "call"
    /\ engine = "ellipsoid"
    /\ step' = OrDefault(options.step, Num(DefaultLineSpacing))
    /\ bearing' = OrDefault(options.bearing, Num(DefaultLineAngle))
    /\ offset' = OrDefault(options.offset, Num(DefaultLineExtension))
    /\ pc' = "ellipsoid"
    /\ UNCHANGED <<polygonCoordinates, lineSpacing, lineAngle, lineExtension,
                   polygonPoints, avgLatitude, cosAngle, sinAngle,
                   projectedPoints, leftBoundary, rightBoundary, linePosition,
                   hatchingLines, scanLog, planarLog, options, engine,
                   returned, transformVars, uiVars>>

NextCall ==
    \/ DestructureOptions
    \/ ThrowTypeError
    \/ ExtractOptions
    \/ ReturnEmpty
    \/ BeginSweep
    \/ ScanLine
    \/ ReturnLines

SpecCall == InitCall /\ [][NextCall]_vars

----------------------------------------------------------------------------
(* Calls of the planar engine one after the other *)

\* the arguments of these calls: <<polygonCoordinates, lineSpacing, lineAngle,
\* lineExtension>>
RepeatedCalls ==
    {<<[nested |-> FALSE, coords |-> UnitSquare], Num(2), 0, Num(0)>>,
     <<[nested |-> FALSE, coords |-> UnitSquare], Num(2), 90, Num(1)>>,
     <<[nested |-> TRUE, coords |-> <<UnitSquare>>], Num(4), 0, Num(1)>>,
     <<[nested |-> FALSE, coords |-> <<<<0, 0>>, <<1, 0>>, <<1, 1>>>>],
       Num(2), 0, Num(0)>>}

\* mutant: the result array lives outside the function and is never emptied
FreshHatchingLines_Mutant == hatchingLines

\* line 69, `const hatchingLines: LonLat[][] = []`: every call starts with a
\* result array of its own
FreshHatchingLines == <<>>

InitRepeat ==
    /\ pc = "idle"
    /\ polygonCoordinates = [nested |-> FALSE, coords |-> <<>>]
    /\ lineSpacing = Num(0)
    /\ lineAngle = 0
    /\ lineExtension = Num(0)
    /\ polygonPoints = <<>>
    /\ avgLatitude = Num(0)
    /\ cosAngle = Num(0)
    /\ sinAngle = Num(0)
    /\ projectedPoints = <<>>
    /\ leftBoundary = Num(0)
    /\ rightBoundary = Num(0)
    /\ linePosition = Num(0)
    /\ hatchingLines = <<>>
    /\ scanLog = <<>>
    /\ planarLog = <<>>
    /\ CallerIdle

\* lines 12-23, 69: a caller invokes createParallelHatching; the locals of the
\* call are new
Invoke ==
    /\ pc = "idle"
    /\ Len(returned) < MaxCalls
    /\ \E call \in RepeatedCalls :
          /\ polygonCoordinates' = call[1]
          /\ lineSpacing' = call[2]
          /\ lineAngle' = call[3]
          /\ lineExtension' = call[4]
          /\ options' = NamedOptions(call[1], Given(call[2]), Given(call[3]),
                                     Given(call[4]))
    /\ pc' = "entry"
    /\ polygonPoints' = <<>>
    /\ avgLatitude' = Num(0)
    /\ cosAngle' = Num(0)
    /\ sinAngle' = Num(0)
    /\ projectedPoints' = <<>>
    /\ leftBoundary' = Num(0)
    /\ rightBoundary' = Num(0)
    /\ linePosition' = Num(0)
    /\ hatchingLines' = FreshHatchingLines
    /\ scanLog' = <<>>
    /\ planarLog' = <<>>
    /\ UNCHANGED <<engine, step, bearing, offset, returned, transformVars,
                   uiVars>>

\* lines 33, 119: the caller receives the value of the return statement
ReceiveResult ==
    /\ pc = "returned"
    /\ returned' = Append(returned,
                          [call  |-> <<polygonCoordinates, lineSpacing,
                                       lineAngle, lineExtension>>,
                           lines |-> hatchingLines])
    /\ pc' = "idle"
    /\ UNCHANGED <<polygonCoordinates, lineSpacing, lineAngle, lineExtension,
                   polygonPoints, avgLatitude, cosAngle, sinAngle,
                   projectedPoints, leftBoundary, rightBoundary, linePosition,
                   hatchingLines, scanLog, planarLog, options, engine, step,
                   bearing, offset, transformVars, uiVars>>

NextRepeat ==
    \/ Invoke
    \/ ReturnEmpty
    \/ BeginSweep
    \/ ScanLine
    \/ ReturnLines
    \/ ReceiveResult

SpecRepeat == InitRepeat /\ [][NextRepeat]_vars

----------------------------------------------------------------------------
(* The two transforms applied to one point *)

\* longitudes and latitudes of the point, in degrees
TransformLongitudes == {Num(-3), Num(0), Frac(1, 2), Num(1), Num(2)}

TransformLatitudes == {Num(-2), Num(0), Num(1)}

\* avgLatitude, the latitude the projection is scaled at; its cosine is not 0
OriginLatitudes == {Num(-60), Num(0), Num(1), Num(60)}

\* lineAngle: the bearings at which CosDeg and SinDeg are exact
TransformAngles == {0, 90, 180, 270}

InitTransform ==
    /\ geoPoint \in TransformLongitudes \X TransformLatitudes
    /\ avgLatitude \in OriginLatitudes
    /\ lineAngle \in TransformAngles
    /\ pc = "geographic"
    /\ workingPoint = [x |-> Num(0), y |-> Num(0)]
    /\ restoredPoint = <<Num(0), Num(0)>>
    /\ polygonCoordinates = [nested |-> FALSE, coords |-> <<>>]
    /\ lineSpacing = Num(0)
    /\ lineExtension = Num(0)
    /\ polygonPoints = <<>>
    /\ cosAngle = Num(0)
    /\ sinAngle = Num(0)
    /\ projectedPoints = <<>>
    /\ leftBoundary = Num(0)
    /\ rightBoundary = Num(0)
    /\ linePosition = Num(0)
    /\ hatchingLines = <<>>
    /\ scanLog = <<>>
    /\ planarLog = <<>>
    /\ options = ArrayAsOptions
    /\ engine = "planar"
    /\ step = Num(0)
    /\ bearing = Num(0)
    /\ offset = Num(0)
    /\ returned = <<>>
    /\ UiIdle

\* lines 42-61: the rotation is set up and the point is projected and rotated
ToWorkingFrame ==
    /\ pc = "geographic"
    /\ cosAngle' = CosAngle(lineAngle)
    /\ sinAngle' = SinAngle(lineAngle)
    /\ workingPoint' =
           ProjectPoint(geoPoint, CosDeg(avgLatitude), cosAngle', sinAngle')
    /\ pc' = "working"
    /\ UNCHANGED <<polygonCoordinates, lineSpacing, lineAngle, lineExtension,
                   polygonPoints, avgLatitude, projectedPoints, leftBoundary,
                   rightBoundary, linePosition, hatchingLines, scanLog,
                   planarLog, options, engine, step, bearing, offset, returned,
                   geoPoint, restoredPoint, uiVars>>

\* lines 103-113: the point is rotated back and the projection is inverted
ToGeographic ==
    /\ pc = "working"
    /\ restoredPoint' =
           ToLonLat(<<workingPoint.x, workingPoint.y>>, CosDeg(avgLatitude),
                    cosAngle, sinAngle)
    /\ pc' = "restored"
    /\ UNCHANGED <<polygonCoordinates, lineSpacing, lineAngle, lineExtension,
                   polygonPoints, avgLatitude, cosAngle, sinAngle,
                   projectedPoints, leftBoundary, rightBoundary, linePosition,
                   hatchingLines, scanLog, planarLog, options, engine, step,
                   bearing, offset, returned, geoPoint, workingPoint, uiVars>>

NextTransform == ToWorkingFrame \/ ToGeographic

SpecTransform == InitTransform /\ [][NextTransform]_vars

----------------------------------------------------------------------------
(* A whole call of the planar engine as one value, as a caller sees it *)

\* lines 72-117: the segments of the scan lines from position on; sweep holds
\* what the loop reads.  Defined for lineSpacing > 0.
RECURSIVE SweepFrom(_, _)
SweepFrom(sweep, position) ==
    IF SweepContinues(position, sweep.rightBoundary)
    THEN LET sorted == SortAsc(IntersectionPoints(sweep.projectedPoints,
                                                  position))
             segments == PairLoop(sorted, sweep.lineExtension, 0)
         IN  [k \in 1..Len(segments) |->
                 LineSegment(position, segments[k], sweep.cosLat,
                             sweep.cosAngle, sweep.sinAngle)]
             \o SweepFrom(sweep, NextLinePosition(position, sweep.lineSpacing))
    ELSE <<>>

\* lines 12-120: createParallelHatching(opts) throws, or returns lines
CreateParallelHatching(opts) ==
    IF ThrowsTypeError(opts)
    THEN [threw |-> TRUE, lines |-> <<>>]
    ELSE LET points == PolygonPoints(ValueOf(opts.polygonCoordinates))
             spacing == DestructuringDefault(opts.lineSpacing,
                                             Num(DefaultLineSpacing))
             angle == DestructuringDefault(opts.lineAngle, DefaultLineAngle)
             extension == DestructuringDefault(opts.lineExtension,
                                               Num(DefaultLineExtension))
         IN  IF TooShort(points)
             THEN [threw |-> FALSE, lines |-> <<>>]
             ELSE LET projected == ProjectedPoints(points, angle)
                      sweep == [projectedPoints |-> projected,
                                rightBoundary |->
                                    RightBoundary(projected, extension),
                                lineSpacing |-> spacing,
                                lineExtension |-> extension,
                                cosLat |-> CosDeg(AvgLatitude(points)),
                                cosAngle |-> CosAngle(angle),
                                sinAngle |-> SinAngle(angle)]
                  IN  [threw |-> FALSE,
                       lines |-> SweepFrom(sweep,
                                           LeftBoundary(projected, extension))]

----------------------------------------------------------------------------
(* The control widget, the double-click handler and the line layer *)

\* value.toString() of a non-negative integer: its decimal digits
RECURSIVE NumberToString(_)
NumberToString(n) ==
    IF n < 10 THEN <<n>> ELSE Append(NumberToString(n \div 10), n % 10)

\* Number(slider.value) of a string of decimal digits
RECURSIVE Number(_)
Number(digits) ==
    IF Len(digits) = 0
    THEN 0
    ELSE 10 * Number(SubSeq(digits, 1, Len(digits) - 1)) + digits[Len(digits)]

\* ui-controls.ts lines 35-39
defaults == [step |-> 100, bearing |-> 0, offset |-> 50]

\* the names of the three parameters, lines 42-46
ParameterNames == {"step", "bearing", "offset"}

\* values a user drags each slider to, within its min, max and step
SliderPositions ==
    [step |-> {50, 100}, bearing |-> {0, 90}, offset |-> {0, 50}]

\* the coordinates of the polygons on the map
SelectablePolygons ==
    {[nested |-> FALSE,
      coords |-> <<<<0, 0>>, <<0, 30>>, <<30, 30>>, <<30, 0>>, <<0, 0>>>>],
     [nested |-> FALSE,
      coords |-> <<<<0, 0>>, <<0, 10>>, <<60, 10>>, <<60, 0>>, <<0, 0>>>>]}

\* lines already on the layer when the page starts
InitialLines == <<<<<<Num(0), Num(0)>>, <<Num(1), Num(1)>>>>>>

\* lines 107-112 and 155-160: createParallelHatching(coordinates, step,
\* bearing, offset).  The engine has one parameter, options: it receives the
\* coordinates array as options, and the three numbers are dropped.
PassedAsOptions(coordinates, spacing, angle, extension) == ArrayAsOptions

\* lines 115-123 and 163-171: one Line per returned pair of LonLat
DrawnLines(lines) ==
    [k \in 1..Len(lines) |-> <<lines[k][1], lines[k][2]>>]

\* lines 104-123 and 140-171: LINE_LAYER.clear(), the call, the drawing; what
\* the layer holds when the call threw, and when it returned lines
LayerAfterRequest(threw, lines) ==
    IF threw THEN <<>> ELSE DrawnLines(lines)

\* mutant: the body runs without try / catch
Catches_Mutant(threw) == FALSE

\* lines 102-126 and 135-177: try { ... } catch (error) { console.error(...) }
\* catches what the body throws
Catches(threw) == threw

\* where an error of a request ended: in the function that made the request
\* (inner), or further out (outer: the double-click handler's own catch of
\* part_000 lines 15-26, or the event dispatcher)
CaughtIn(threw, inner, outer) ==
    IF ~threw THEN "none"
    ELSE IF Catches(threw) THEN inner
    ELSE outer

\* part_000 lines 8-12: the layers are added and createControlWidget() has run
InitUi ==
    /\ currentPolygonCoords = Undefined
    /\ values = defaults
    /\ sliders = [name \in ParameterNames |-> NumberToString(defaults[name])]
    /\ lineLayer \in {<<>>, InitialLines}
    /\ eventLog = <<>>
    /\ pc = "page"
    /\ polygonCoordinates = [nested |-> FALSE, coords |-> <<>>]
    /\ lineSpacing = Num(0)
    /\ lineAngle = 0
    /\ lineExtension = Num(0)
    /\ polygonPoints = <<>>
    /\ avgLatitude = Num(0)
    /\ cosAngle = Num(0)
    /\ sinAngle = Num(0)
    /\ projectedPoints = <<>>
    /\ leftBoundary = Num(0)
    /\ rightBoundary = Num(0)
    /\ linePosition = Num(0)
    /\ hatchingLines = <<>>
    /\ scanLog = <<>>
    /\ planarLog = <<>>
    /\ options = ArrayAsOptions
    /\ engine = "planar"
    /\ step = Num(0)
    /\ bearing = Num(0)
    /\ offset = Num(0)
    /\ returned = <<>>
    /\ TransformIdle

\* what no UI event changes
idleVars == <<polygonCoordinates, lineSpacing, lineAngle, lineExtension,
              polygonPoints, avgLatitude, cosAngle, sinAngle, projectedPoints,
              leftBoundary, rightBoundary, linePosition, scanLog, planarLog,
              engine, step, bearing, offset, returned, transformVars>>

\* part_000 lines 14-27 with a Polygon picked: LINE_LAYER.clear(), then
\* setCurrentPolygon(polygon.coordinates), ui-controls.ts lines 134-178.
\* options, pc and hatchingLines hold the engine call the request made.
SelectPolygon ==
    /\ Len(eventLog) < MaxEvents
    /\ \E polygon \in SelectablePolygons :
          /\ currentPolygonCoords' = Given(polygon)
          /\ options' = PassedAsOptions(polygon, Number(sliders.step),
                                        Number(sliders.bearing),
                                        Number(sliders.offset))
    /\ LET call == CreateParallelHatching(options')
       IN  /\ pc' = IF call.threw THEN "thrown" ELSE "returned"
           /\ hatchingLines' = call.lines
    /\ lineLayer' = LayerAfterRequest(pc' = "thrown", hatchingLines')
    /\ eventLog' = Append(eventLog,
           [event    |-> "ldblclick",
            polygon  |-> currentPolygonCoords',
            name     |-> "",
            value    |-> 0,
            threw    |-> pc' = "thrown",
            caughtIn |-> CaughtIn(pc' = "thrown", "setCurrentPolygon",
                                  "ldblclick handler"),
            layerBefore |-> lineLayer,
            layerAfter  |-> lineLayer'])
    /\ UNCHANGED <<values, sliders, idleVars>>

\* part_000 lines 14-27 with something else picked: nothing happens
DoubleClickElsewhere ==
    /\ Len(eventLog) < MaxEvents
    /\ eventLog' = Append(eventLog,
           [event |-> "ldblclick", polygon |-> Undefined, name |-> "",
            value |-> 0, threw |-> FALSE, caughtIn |-> "none",
            layerBefore |-> lineLayer, layerAfter |-> lineLayer])
    /\ UNCHANGED <<currentPolygonCoords, values, sliders, lineLayer, options,
                   pc, hatchingLines, idleVars>>

\* ui-controls.ts lines 80-89 while no polygon is selected: the input
\* listener of one slider, after the browser has set slider.value
SliderInputWithoutPolygon ==
    /\ Len(eventLog) < MaxEvents
    /\ IsUndefined(currentPolygonCoords)
    /\ \E name \in ParameterNames : \E position \in SliderPositions[name] :
          /\ sliders' = [sliders EXCEPT ![name] = NumberToString(position)]
          /\ values' = [values EXCEPT ![name] = Number(sliders'[name])]
          /\ eventLog' = Append(eventLog,
                 [event |-> "input", polygon |-> Undefined, name |-> name,
                  value |-> values'[name], threw |-> FALSE,
                  caughtIn |-> "none", layerBefore |-> lineLayer,
                  layerAfter |-> lineLayer])
    /\ UNCHANGED <<currentPolygonCoords, lineLayer, options, pc,
                   hatchingLines, idleVars>>

\* ui-controls.ts lines 80-89 with a polygon selected: the input listener
\* calls updateLines(), lines 99-127
SliderInput ==
    /\ Len(eventLog) < MaxEvents
    /\ ~IsUndefined(currentPolygonCoords)
    /\ \E name \in ParameterNames : \E position \in SliderPositions[name] :
          /\ sliders' = [sliders EXCEPT ![name] = NumberToString(position)]
          /\ values' = [values EXCEPT ![name] = Number(sliders'[name])]
          /\ options' = PassedAsOptions(ValueOf(currentPolygonCoords),
                                        values'.step, values'.bearing,
                                        values'.offset)
          /\ LET call == CreateParallelHatching(options')
             IN  /\ pc' = IF call.threw THEN "thrown" ELSE "returned"
                 /\ hatchingLines' = call.lines
          /\ lineLayer' = LayerAfterRequest(pc' = "thrown", hatchingLines')
          /\ eventLog' = Append(eventLog,
                 [event    |-> "input",
                  polygon  |-> currentPolygonCoords,
                  name     |-> name,
                  value    |-> values'[name],
                  threw    |-> pc' = "thrown",
                  caughtIn |-> CaughtIn(pc' = "thrown", "updateLines",
                                        "event dispatcher"),
                  layerBefore |-> lineLayer,
                  layerAfter  |-> lineLayer'])
    /\ UNCHANGED <<currentPolygonCoords, idleVars>>

NextUi ==
    \/ SelectPolygon
    \/ DoubleClickElsewhere
    \/ SliderInputWithoutPolygon
    \/ SliderInput

SpecUi == InitUi /\ [][NextUi]_vars

----------------------------------------------------------------------------
(* Vocabulary of the claims *)

\* the ring the caller passed, bare or wrapped in an array of polygons
InputRing ==
    IF polygonCoordinates.nested
    THEN polygonCoordinates.coords[1]
    ELSE polygonCoordinates.coords

ValidRing == Len(InputRing) >= 4

PositiveSpacing == Less(Num(0), lineSpacing)

\* an emitted LonLat back in the rotated planar frame of the call
Planar(lonLat) == ProjectPoint(lonLat, CosDeg(avgLatitude), cosAngle, sinAngle)

\* floor and ceiling of a rational
Floor(a) == a[1] \div a[2]

Ceil(a) == -((-a[1]) \div a[2])

----------------------------------------------------------------------------
C2_NonPositiveSpacingRaises ==
    (ValidRing /\ ~PositiveSpacing) =>
        /\ pc \in {"entry", "raised"}
        /\ scanLog = <<>>
        /\ hatchingLines = <<>>

----------------------------------------------------------------------------
(* Plane geometry of rings with integer coordinates, for the claims *)

\* twice the signed area of the triangle a, b, c
Cross(a, b, c) ==
    (b[1] - a[1]) * (c[2] - a[2]) - (b[2] - a[2]) * (c[1] - a[1])

Sign(n) == IF n > 0 THEN 1 ELSE IF n < 0 THEN -1 ELSE 0

Between(u, v, w) == (u <= w /\ w <= v) \/ (v <= w /\ w <= u)

\* p lies on the closed segment a-b
OnSegment(a, b, p) ==
    /\ Cross(a, b, p) = 0
    /\ Between(a[1], b[1], p[1])
    /\ Between(a[2], b[2], p[2])

\* the closed segments a-b and c-d have a common point
SegmentsMeet(a, b, c, d) ==
    \/ /\ Sign(Cross(a, b, c)) * Sign(Cross(a, b, d)) < 0
       /\ Sign(Cross(c, d, a)) * Sign(Cross(c, d, b)) < 0
    \/ OnSegment(a, b, c) \/ OnSegment(a, b, d)
    \/ OnSegment(c, d, a) \/ OnSegment(c, d, b)

ClosedRing(ring) == Len(ring) >= 2 /\ ring[1] = ring[Len(ring)]

\* the corners of the polygon: the ring without a repeated closing point
Corners(ring) ==
    IF ClosedRing(ring) THEN SubSeq(ring, 1, Len(ring) - 1) ELSE ring

\* corner i + 1, cyclically
After(v, i) == v[(i % Len(v)) + 1]

\* the polygon of the ring is simple: at least three distinct corners,
\* neighbouring edges share their common corner only, other edges are disjoint
SimpleRing(ring) ==
    LET v == Corners(ring)
        n == Len(v)
    IN  /\ n >= 3
        /\ \A i, j \in 1..n : i < j => v[i] # v[j]
        /\ \A i, j \in 1..n : i < j =>
              IF j = i + 1
              THEN ~OnSegment(v[i], v[j], After(v, j))
                   /\ ~OnSegment(v[j], After(v, j), v[i])
              ELSE IF i = 1 /\ j = n
              THEN ~OnSegment(v[n], v[1], v[2])
                   /\ ~OnSegment(v[1], v[2], v[n])
              ELSE ~SegmentsMeet(v[i], After(v, i), v[j], After(v, j))

\* the hits of a scan line when the edge from the last point back to the
\* first is tested as well, unless the ring is already closed
HitsOfClosedRing(projected, position) ==
    LET n == Len(projected)
        closed == IF projected[1] = projected[n]
                  THEN projected
                  ELSE Append(projected, projected[1])
    IN  SortAsc(EdgeLoop(closed, position, Len(closed) - 1))

----------------------------------------------------------------------------
\* C3: on every scan line visited, the recorded hits are those of all edges
\* including the edge from the last point back to the first when the two are
\* not coincident (so an unclosed ring gives the hits of the ring with its
\* first point appended), and no further edge when the ring is closed.
C3_ClosingEdgeTested ==
    \A i \in 1..Len(scanLog) :
        scanLog[i].hits = HitsOfClosedRing(projectedPoints, scanLog[i].x0)

\* C5: for a simple closed ring, every scan line visited, also one through
\* the x-coordinate of a corner, records an even number of hits.
C5_SimpleRingEvenHits ==
    (ValidRing /\ ClosedRing(InputRing) /\ SimpleRing(InputRing)) =>
        \A i \in 1..Len(scanLog) : Len(scanLog[i].hits) % 2 = 0

----------------------------------------------------------------------------
\* the sweep range as the claim defines it: lowest rotated x - offset and
\* highest rotated x + offset
SweepMin == Minus(MathMin(AllXCoordinates(projectedPoints)), lineExtension)

SweepMax == Plus(MathMax(AllXCoordinates(projectedPoints)), lineExtension)

SweepWidthOverSpacing == Over(Minus(SweepMax, SweepMin), lineSpacing)

\* the first position is min and consecutive positions differ by spacing
PositionsStepBySpacing ==
    /\ scanLog # <<>> => scanLog[1].x0 = SweepMin
    /\ \A i \in 1..(Len(scanLog) - 1) :
          scanLog[i + 1].x0 = Plus(scanLog[i].x0, lineSpacing)

----------------------------------------------------------------------------
\* the planar segments emitted on scan line i, in emission order
SegmentsOfLine(i) == SelectSeq(planarLog, LAMBDA seg : seg.line = i)

\* xs is ascending
Ascending(xs) == \A i \in 1..(Len(xs) - 1) : Leq(xs[i], xs[i + 1])

\* how often v occurs in xs
Occurrences(xs, v) == Cardinality({i \in 1..Len(xs) : xs[i] = v})

\* ys holds the same numbers as xs, each as often
SameNumbers(xs, ys) ==
    /\ Len(xs) = Len(ys)
    /\ \A i \in 1..Len(xs) : Occurrences(xs, xs[i]) = Occurrences(ys, xs[i])

\* C6: on every scan line, with h hits found, the hits are sorted ascending
\* and paired (hit[0],hit[1]), (hit[2],hit[3]), ...: exactly floor(h/2)
\* segments are emitted for the line, the k-th from the k-th pair extended by
\* the offset, so for odd h the last sorted hit bounds no segment; every
\* emitted segment has its LonLat pair in the result.
C6_HitsSortedAndPaired ==
    /\ Len(hatchingLines) = Len(planarLog)
    /\ \A i \in 1..Len(scanLog) :
          LET found == scanLog[i].found
              hits == scanLog[i].hits
              segs == SegmentsOfLine(i)
          IN  /\ SameNumbers(found, hits)
              /\ Ascending(hits)
              /\ Len(segs) = Len(hits) \div 2
              /\ \A k \in 1..Len(segs) :
                    /\ segs[k].x = scanLog[i].x0
                    /\ segs[k].start = Minus(hits[2 * k - 1], lineExtension)
                    /\ segs[k].end = Plus(hits[2 * k], lineExtension)
    /\ \A j \in 1..Len(planarLog) : planarLog[j].line \in 1..Len(scanLog)

\* a scan line with three hits, found out of order, and one segment
C6_Witness ==
    \E i \in 1..Len(scanLog) :
        /\ Len(scanLog[i].hits) = 3
        /\ scanLog[i].found # scanLog[i].hits
        /\ Len(SegmentsOfLine(i)) = 1

\* C7: in the returned sequence the segments are in sweep order: an earlier
\* segment lies on a scan line with a smaller or equal position, segments of
\* one scan line are in ascending order along the line, and the first
\* endpoint of each segment is not after its second.  Positions are those of
\* the returned LonLat in the rotated planar frame.
C7_SegmentsInSweepOrder ==
    pc = "returned" =>
        /\ Len(hatchingLines) = Len(planarLog)
        /\ \A i \in 1..Len(hatchingLines) :
              LET a == Planar(hatchingLines[i][1])
                  b == Planar(hatchingLines[i][2])
              IN  a.x = b.x /\ Leq(a.y, b.y)
        /\ \A i, j \in 1..Len(hatchingLines) : i < j =>
              LET a == Planar(hatchingLines[i][1])
                  b == Planar(hatchingLines[i][2])
                  c == Planar(hatchingLines[j][1])
                  d == Planar(hatchingLines[j][2])
              IN  /\ Leq(a.x, c.x)
                  /\ planarLog[i].line = planarLog[j].line =>
                        a.x = c.x /\ Leq(a.y, c.y) /\ Leq(b.y, d.y)
                  /\ planarLog[i].line < planarLog[j].line => Less(a.x, c.x)

\* a returned sequence with two segments on one scan line and a segment on a
\* later one, computed from hits found out of order
C7_Witness ==
    /\ pc = "returned"
    /\ \E i, j, k \in 1..Len(planarLog) :
          /\ i < j /\ j < k
          /\ planarLog[i].line = planarLog[j].line
          /\ planarLog[j].line < planarLog[k].line
    /\ \E i \in 1..Len(scanLog) : scanLog[i].found # scanLog[i].hits

----------------------------------------------------------------------------
(* Geometry of an emitted point <<lon, lat>> (rationals) against a ring with
   integer coordinates *)

\* twice the signed area of a, b, p for corners a, b and a rational point p
CrossAt(a, b, p) ==
    Minus(Times(Num(b[1] - a[1]), Minus(p[2], Num(a[2]))),
          Times(Num(b[2] - a[2]), Minus(p[1], Num(a[1]))))

\* every corner turns the same way, and does turn
StrictlyConvex(ring) ==
    LET v == Corners(ring)
        n == Len(v)
        turn(i) == Sign(Cross(v[i], After(v, i), After(v, i + 1)))
    IN  /\ n >= 3
        /\ turn(1) # 0
        /\ \A i \in 1..n : turn(i) = turn(1)

\* p is in the closed convex polygon with corners v: on the inner side of
\* every edge
InsideOrOn(p, v) ==
    LET inner == Sign(Cross(v[1], v[2], v[3]))
    IN  \A i \in 1..Len(v) :
            Sign(CrossAt(v[i], After(v, i), p)[1]) * inner >= 0

\* p is on the boundary of that polygon
OnBoundary(p, v) ==
    /\ InsideOrOn(p, v)
    /\ \E i \in 1..Len(v) : CrossAt(v[i], After(v, i), p)[1] = 0

Midpoint(p, q) ==
    <<Over(Plus(p[1], q[1]), Num(2)), Over(Plus(p[2], q[2]), Num(2))>>

\* C8: for a convex ring and offset = 0 every emitted segment lies within the
\* polygon: both endpoints are on the polygon's boundary at the scan-line
\* position of the segment, and the segment between them (convex polygon:
\* its endpoints and its midpoint) is nowhere outside.
C8_ConvexContainment ==
    (ValidRing /\ StrictlyConvex(InputRing) /\ lineExtension = Num(0)) =>
        /\ Len(hatchingLines) = Len(planarLog)
        /\ \A i \in 1..Len(hatchingLines) :
              LET a == hatchingLines[i][1]
                  b == hatchingLines[i][2]
                  v == Corners(InputRing)
              IN  /\ OnBoundary(a, v)
                  /\ OnBoundary(b, v)
                  /\ InsideOrOn(Midpoint(a, b), v)
                  /\ Planar(a).x = scanLog[planarLog[i].line].x0
                  /\ Planar(b).x = scanLog[planarLog[i].line].x0

\* a convex quadrilateral, offset 0, with a segment of positive length that
\* crosses its interior, at bearing 90
C8_Witness ==
    /\ ValidRing /\ StrictlyConvex(InputRing) /\ lineExtension = Num(0)
    /\ Len(Corners(InputRing)) = 4
    /\ lineAngle = 90
    /\ \E i \in 1..Len(hatchingLines) :
          /\ hatchingLines[i][1] # hatchingLines[i][2]
          /\ \A k \in 1..4 :
                CrossAt(InputRing[k], After(Corners(InputRing), k),
                        Midpoint(hatchingLines[i][1], hatchingLines[i][2]))[1] # 0

\* the specification's square scenario: the closed unit square, bearing 0,
\* offset 0, and the spacing that puts a scan line through the centre
SquareScenario ==
    /\ InputRing = UnitSquare
    /\ lineAngle = 0
    /\ lineExtension = Num(0)
    /\ lineSpacing = SquareHalfWidth

\* the segment runs from the square's bottom edge to its top edge at lon
BottomToTopAt(segment, lon) ==
    /\ segment[1] = <<lon, Num(0)>>
    /\ segment[2] = <<lon, Num(1)>>
    /\ Leq(Num(0), lon) /\ Leq(lon, Num(1))

\* the scan lines through the square's centre (lon 1/2)
LinesThroughCentre ==
    {i \in 1..Len(scanLog) :
        scanLog[i].x0 = Planar(<<Frac(1, 2), Frac(1, 2)>>).x}

----------------------------------------------------------------------------
\* the number of the pair (1, 2, ...) on its scan line that segment j of the
\* result was built from
PairOf(j) ==
    Cardinality({i \in 1..j : planarLog[i].line = planarLog[j].line})

\* C10: every segment emitted with offset > 0, mapped back into the rotated
\* planar frame, keeps the scan-line position of its pair of hits, starts
\* below the pair's first hit and ends above its second, and its planar
\* length is the distance between the two hits plus 2 * offset, strictly
\* more than the length of the segment on the same hits with offset = 0.
C10_OffsetExtendsSegment ==
    Less(Num(0), lineExtension) =>
        /\ Len(hatchingLines) = Len(planarLog)
        /\ \A j \in 1..Len(hatchingLines) :
              LET a == Planar(hatchingLines[j][1])
                  b == Planar(hatchingLines[j][2])
                  line == scanLog[planarLog[j].line]
                  first == line.hits[2 * PairOf(j) - 1]
                  second == line.hits[2 * PairOf(j)]
                  length == Minus(b.y, a.y)
                  lengthAtZero == Minus(second, first)
              IN  /\ a.x = line.x0 /\ b.x = line.x0
                  /\ Less(a.y, first)
                  /\ Less(second, b.y)
                  /\ length = Plus(lengthAtZero, Times(Num(2), lineExtension))
                  /\ Less(lengthAtZero, length)
                  /\ Leq(Num(0), lengthAtZero)

\* offset 1 and a segment emitted from two distinct hits, not the first pair
\* of its line
C10_Witness ==
    /\ lineExtension = Num(1)
    /\ \E j \in 1..Len(planarLog) :
          /\ PairOf(j) = 2
          /\ Less(scanLog[planarLog[j].line].hits[3],
                  scanLog[planarLog[j].line].hits[4])

----------------------------------------------------------------------------
\* the value a parameter must have after the call entry: the supplied value,
\* or the default when the caller omitted it
InEffect(property, default) ==
    IF IsUndefined(property) THEN default ELSE ValueOf(property)

\* the planar engine is past its entry
PlanarEntered == engine = "planar" /\ pc \in {"entry", "sweep", "returned"}

\* the ellipsoid variant is past its entry
EllipsoidEntered == engine = "ellipsoid" /\ pc = "ellipsoid"

\* C11 (planar engine only): from the entry of parallelHatchingAlgorithm.ts
\* on, through the whole sweep and at the return, spacing, bearing and offset
\* are the supplied values, 0 included, and 100, 0, 50 where the caller
\* omitted them.
C11_PlanarKeepsSuppliedValues ==
    PlanarEntered =>
        /\ lineSpacing = InEffect(options.lineSpacing, Num(DefaultLineSpacing))
        /\ lineAngle = InEffect(options.lineAngle, DefaultLineAngle)
        /\ lineExtension =
               InEffect(options.lineExtension, Num(DefaultLineExtension))

\* C11: in both implementations, from the call entry on and at every later
\* step of the call, spacing, bearing and offset are the values the caller
\* supplied (offset 0 and bearing 0 included), and the defaults 100, 0, 50
\* exactly for the parameters the caller omitted.
C11_SuppliedValuesUsedAsGiven ==
    /\ C11_PlanarKeepsSuppliedValues
    /\ EllipsoidEntered =>
           /\ step = InEffect(options.step, Num(DefaultLineSpacing))
           /\ bearing = InEffect(options.bearing, Num(DefaultLineAngle))
           /\ offset = InEffect(options.offset, Num(DefaultLineExtension))

\* a call of the planar engine with offset 0 and bearing 0 supplied and the
\* spacing omitted has swept and returned
C11_PlanarWitness ==
    /\ engine = "planar"
    /\ pc = "returned"
    /\ Len(scanLog) > 0
    /\ IsUndefined(options.lineSpacing)
    /\ options.lineAngle = Given(0)
    /\ options.lineExtension = Given(Num(0))

----------------------------------------------------------------------------
\* two returned results are the same sequence of segments: equal length and
\* equal endpoints position by position
SameLines(a, b) ==
    /\ Len(a) = Len(b)
    /\ \A k \in 1..Len(a) : a[k][1] = b[k][1] /\ a[k][2] = b[k][2]

----------------------------------------------------------------------------
\* the point in the unrotated plane: the equirectangular formulas
EquirectangularX == Times(Times(Num(UnitsPerDegree), geoPoint[1]),
                          CosDeg(avgLatitude))

EquirectangularY == Times(Num(UnitsPerDegree), geoPoint[2])

----------------------------------------------------------------------------
\* The value CreateParallelHatching gives for a call is the value the call
\* returns step by step (calls with a positive spacing).
WholeCallAgreesWithSteps ==
    (engine = "planar" /\ pc = "returned" /\ Less(Num(0), lineSpacing)) =>
        /\ ~CreateParallelHatching(options).threw
        /\ CreateParallelHatching(options).lines = hatchingLines

----------------------------------------------------------------------------
\* the function whose try / catch must hold the errors of an event's request
RequestFunction(entry) ==
    IF entry.event = "input" THEN "updateLines" ELSE "setCurrentPolygon"

\* the effect of the event is in the widget's state
Handled(entry) ==
    /\ (entry.event = "ldblclick" /\ ~IsUndefined(entry.polygon)) =>
           currentPolygonCoords = entry.polygon
    /\ entry.event = "input" =>
           /\ values[entry.name] = entry.value
           /\ Number(sliders[entry.name]) = entry.value

----------------------------------------------------------------------------
\* the segments the engine produces for the current polygon as its ring with
\* the current slider values as spacing, bearing and offset
HatchingOfSelection ==
    CreateParallelHatching(
        NamedOptions(ValueOf(currentPolygonCoords),
                     Given(Num(Number(sliders.step))),
                     Given(Number(sliders.bearing)),
                     Given(Num(Number(sliders.offset))))).lines

\* C15: after any sequence of selections and slider inputs, once a polygon is
\* selected the line layer holds exactly the segments the engine produces for
\* the polygon selected last with the current slider values (so nothing of an
\* earlier polygon or of earlier values remains, and the layer is non-empty
\* whenever that hatching is); and every slider input made while no polygon
\* was selected left the layer as it was.
C15_LayerHoldsLatestHatching ==
    /\ ~IsUndefined(currentPolygonCoords) =>
           lineLayer = DrawnLines(HatchingOfSelection)
    /\ \A i \in 1..Len(eventLog) :
           (eventLog[i].event = "input" /\ IsUndefined(eventLog[i].polygon)) =>
               eventLog[i].layerAfter = eventLog[i].layerBefore

\* C15 (what the code does): once a polygon is selected the layer is empty
\* after every request, because every request's engine call throws; and every
\* slider input made while no polygon was selected left the layer as it was.
C15_LayerEmptyAfterEveryRequest ==
    /\ ~IsUndefined(currentPolygonCoords) => lineLayer = <<>> /\ pc = "thrown"
    /\ \A i \in 1..Len(eventLog) :
           (eventLog[i].event = "input" /\ IsUndefined(eventLog[i].polygon)) =>
               eventLog[i].layerAfter = eventLog[i].layerBefore

\* a polygon is selected, its hatching for the slider values is not empty,
\* and a slider input was made before it while the layer held lines
C15_Reached ==
    /\ ~IsUndefined(currentPolygonCoords)
    /\ Len(HatchingOfSelection) > 0
    /\ eventLog[1].event = "input"
    /\ Len(eventLog[1].layerBefore) > 0

============================================================================
